---- MODULE Spec2Model ----
(***************************************************************************)
(* mirrorfs: a FUSE filesystem that mirrors a real directory tree and      *)
(* dispatches named events to registered hooks around every node           *)
(* operation.  The model covers the hook registry (HookHandler), the       *)
(* directory node (dir), the file node (file) and the real filesystem the  *)
(* nodes delegate to.                                                      *)
(***************************************************************************)
EXTENDS Integers, Sequences, FiniteSets, TLC

(***************************************************************************)
(* Bounds of the exploration.                                              *)
(***************************************************************************)
\* depth of the mirrored tree below the mirror root
MaxDepth == 2
\* number of WithHook registrations made before serving
MaxReg == 2
\* requests served one after the other with an empty registry
MaxOps == 3
\* requests served when two of them overlap in time
MaxConcOps == 2
\* requests served when subscribers are registered
MaxHookedOps == 1
\* requests served when two tasks dispatch to subscribers at the same time
MaxDispatchOps == 2
\* direct HandleEvent calls made on the nodes
MaxHandleEvents == 2

\* entry names, in the (lexical) order ioutil.ReadDir sorts them
NameOrder == <<"a", "b">>
Names == {NameOrder[i] : i \in 1..Len(NameOrder)}
\* the serving collaborator's concurrent request tasks
Procs == {1, 2}
\* hook callbacks that can be registered
Subs == {1, 2}
\* permission modes requests ask for
Perms == {384}
\* byte payloads of write requests
DataSet == {<<7>>, <<8, 9>>}
\* byte offsets of write requests
Offsets == {0, 1}

(***************************************************************************)
(* The real filesystem: a tree of entries addressed by absolute paths      *)
(* (sequences of names below "/").  A relative path is <<".", name>> and   *)
(* resolves against the process working directory.                         *)
(***************************************************************************)
Paths == UNION {[1..n -> Names] : n \in 0..MaxDepth}

\* mirror.go: the mirror root defaults to "/"
RootPath == <<>>
\* the working directory of the serving process
Cwd == <<>>

NoEntry == [kind |-> "none", ino |-> 0, mode |-> 0, data |-> <<>>]

\* a tree with no entry at all
NoFs == [q \in Paths |-> NoEntry]

Rel(name) == <<".", name>>

Resolve(path) ==
  IF path # <<>> /\ path[1] = "." THEN Cwd \o Tail(path) ELSE path

\* filepath.Join(dir, name) for a single-component name
Join(path, name) == path \o <<name>>

Parent(p) == SubSeq(p, 1, Len(p) - 1)

ProperPrefixes(p) == {SubSeq(p, 1, k) : k \in 0..(Len(p) - 1)}

IsPrefix(p, q) == Len(p) <= Len(q) /\ SubSeq(q, 1, Len(p)) = p

Children(f, p) == {q \in Paths : q # <<>> /\ Parent(q) = p /\ f[q].kind # "none"}

\* the error of resolving absolute path p: "nil" when p names an entry
StatErr(f, p) ==
  IF \E q \in ProperPrefixes(p) : q \in Paths /\ f[q].kind = "file"
  THEN "ENOTDIR"
  ELSE IF p \notin Paths \/ f[p].kind = "none" THEN "ENOENT" ELSE "nil"

\* os.Stat
osStat(f, path) ==
  LET p == Resolve(path)
      e == StatErr(f, p)
  IN [err |-> e, info |-> IF e = "nil" THEN f[p] ELSE NoEntry]

\* os.OpenFile: [err, fs, ino (the file the handle refers to), next]
osOpenFile(f, next, path, flags, perm) ==
  LET p == Resolve(path)
      e == StatErr(f, p)
  IN IF e = "nil"
     THEN IF {"CREATE", "EXCL"} \subseteq flags
          THEN [err |-> "EEXIST", fs |-> f, ino |-> 0, next |-> next]
          ELSE IF f[p].kind = "dir"
          THEN [err |-> "EISDIR", fs |-> f, ino |-> 0, next |-> next]
          ELSE [err |-> "nil",
                fs |-> IF "TRUNC" \in flags
                       THEN [f EXCEPT ![p].data = <<>>] ELSE f,
                ino |-> f[p].ino, next |-> next]
     ELSE IF e = "ENOENT" /\ "CREATE" \in flags /\ p \in Paths
             /\ StatErr(f, Parent(p)) = "nil"
     THEN [err |-> "nil",
           fs |-> [f EXCEPT ![p] = [kind |-> "file", ino |-> next,
                                    mode |-> perm, data |-> <<>>]],
           ino |-> next, next |-> next + 1]
     ELSE [err |-> e, fs |-> f, ino |-> 0, next |-> next]

Max(a, b) == IF a >= b THEN a ELSE b

\* variant: the data is appended instead of written at the offset
OverlayAppends(old, data, off) == old \o data

\* the content after writing data at byte offset off (holes read as 0)
Overlay(old, data, off) ==
  IF data = <<>> THEN old
  ELSE [i \in 1..Max(Len(old), off + Len(data)) |->
          IF i > off /\ i <= off + Len(data) THEN data[i - off]
          ELSE IF i <= Len(old) THEN old[i] ELSE 0]

\* variant: the data is written at the start of the file, as Write would
fileWriteAtStart(f, ino, flags, data, off) ==
  IF "APPEND" \in flags
  THEN [err |-> "EAPPEND", fs |-> f, n |-> 0]
  ELSE [err |-> "nil",
        fs |-> [q \in Paths |->
                  IF f[q].kind = "file" /\ f[q].ino = ino
                  THEN [f[q] EXCEPT !.data = Overlay(f[q].data, data, 0)]
                  ELSE f[q]],
        n |-> Len(data)]

\* (*os.File).WriteAt on a handle to inode ino: [err, fs, n]
fileWriteAt(f, ino, flags, data, off) ==
  IF "APPEND" \in flags
  THEN [err |-> "EAPPEND", fs |-> f, n |-> 0]
  ELSE [err |-> "nil",
        fs |-> [q \in Paths |->
                  IF f[q].kind = "file" /\ f[q].ino = ino
                  THEN [f[q] EXCEPT !.data = Overlay(f[q].data, data, off)]
                  ELSE f[q]],
        n |-> Len(data)]

\* os.Remove: [err, fs]
osRemove(f, path) ==
  LET p == Resolve(path)
      e == StatErr(f, p)
  IN IF e # "nil" THEN [err |-> e, fs |-> f]
     ELSE IF p = <<>> THEN [err |-> "EBUSY", fs |-> f]
     ELSE IF f[p].kind = "dir" /\ Children(f, p) # {}
     THEN [err |-> "ENOTEMPTY", fs |-> f]
     ELSE [err |-> "nil", fs |-> [f EXCEPT ![p] = NoEntry]]

\* os.Mkdir: [err, fs, next]
osMkdir(f, next, path, perm) ==
  LET p == Resolve(path)
      e == StatErr(f, p)
  IN IF e = "nil" THEN [err |-> "EEXIST", fs |-> f, next |-> next]
     ELSE IF e = "ENOENT" /\ p \in Paths /\ StatErr(f, Parent(p)) = "nil"
     THEN [err |-> "nil",
           fs |-> [f EXCEPT ![p] = [kind |-> "dir", ino |-> next,
                                    mode |-> perm, data |-> <<>>]],
           next |-> next + 1]
     ELSE [err |-> e, fs |-> f, next |-> next]

\* the tree after moving the subtree at o onto n
MoveTree(f, o, n) ==
  [q \in Paths |->
     IF IsPrefix(n, q)
     THEN LET src == o \o SubSeq(q, Len(n) + 1, Len(q))
          IN IF src \in Paths THEN f[src] ELSE NoEntry
     ELSE IF IsPrefix(o, q) THEN NoEntry ELSE f[q]]

\* os.Rename: [err, fs]
osRename(f, oldPath, newPath) ==
  LET o == Resolve(oldPath)
      n == Resolve(newPath)
      eo == StatErr(f, o)
      en == StatErr(f, n)
  IN IF eo # "nil" THEN [err |-> eo, fs |-> f]
     ELSE IF en = "ENOTDIR" THEN [err |-> "ENOTDIR", fs |-> f]
     ELSE IF n \notin Paths \/ StatErr(f, Parent(n)) # "nil"
     THEN [err |-> "ENOENT", fs |-> f]
     ELSE IF o = n THEN [err |-> "nil", fs |-> f]
     ELSE IF o = <<>> THEN [err |-> "EBUSY", fs |-> f]
     ELSE IF f[o].kind = "dir" /\ IsPrefix(o, n)
     THEN [err |-> "EINVAL", fs |-> f]
     ELSE IF en = "nil" /\ f[o].kind = "dir" /\ f[n].kind = "file"
     THEN [err |-> "ENOTDIR", fs |-> f]
     ELSE IF en = "nil" /\ f[o].kind = "file" /\ f[n].kind = "dir"
     THEN [err |-> "EISDIR", fs |-> f]
     ELSE IF en = "nil" /\ f[n].kind = "dir" /\ Children(f, n) # {}
     THEN [err |-> "ENOTEMPTY", fs |-> f]
     ELSE [err |-> "nil", fs |-> MoveTree(f, o, n)]

\* ioutil.ReadDir: [err, entries], the entries sorted by name
ioutilReadDir(f, path) ==
  LET p == Resolve(path)
      e == StatErr(f, p)
  IN IF e # "nil" THEN [err |-> e, entries |-> <<>>]
     ELSE IF f[p].kind # "dir" THEN [err |-> "ENOTDIR", entries |-> <<>>]
     ELSE LET present(nm) == Join(p, nm) \in Paths
                             /\ f[Join(p, nm)].kind # "none"
              names == SelectSeq(NameOrder, present)
          IN [err |-> "nil",
              entries |-> [i \in 1..Len(names) |->
                             [name |-> names[i],
                              ino |-> f[Join(p, names[i])].ino,
                              isDir |-> f[Join(p, names[i])].kind = "dir"]]]

\* ioutil.ReadFile: [err, data]
ioutilReadFile(f, path) ==
  LET p == Resolve(path)
      e == StatErr(f, p)
  IN IF e # "nil" THEN [err |-> e, data |-> <<>>]
     ELSE IF f[p].kind = "dir" THEN [err |-> "EISDIR", data |-> <<>>]
     ELSE [err |-> "nil", data |-> f[p].data]

(***************************************************************************)
(* Event names (spec section 6; the strings the node operations pass to    *)
(* Handle).                                                                *)
(***************************************************************************)
OpNames == {"attr", "Lookup", "ReadDirAll", "Setattr", "Create", "Remove",
            "Mkdir", "Rename", "Attr", "ReadAll", "Write"}
StartEvent(op) == op \o ":start"
EndEvent(op) == op \o ":end"
Events == {StartEvent(op) : op \in OpNames} \cup {EndEvent(op) : op \in OpNames}
\* event names hooks are registered under in the exploration
HookedEvents == {"*", "Lookup:end", "Attr:end", "Write:start"}
AllEvents == Events \cup {"*"}

VARIABLES
  hh,        \* HookHandler: event name -> sequence of registered callbacks
  serving,   \* fs.Serve has been called
  dirRev,    \* which revision of the directory node is built
  fs,        \* the real filesystem
  nextIno,   \* the next inode number the real filesystem hands out
  nodes,     \* the nodes handed to the serving collaborator
  ops,       \* per request task: the node operation it is running
  hs,        \* per request task: the Handle call it is in
  nOpen,     \* number of open file handles of the process
  used,      \* number of requests served so far
  crashed,   \* the process was terminated by an unrecovered panic
  created,   \* history: the File nodes Create has returned
  rt,        \* history: the last Write at offset 0 through such a node
  mk         \* history: the directory node of the last Mkdir, tree untouched since

vars == <<hh, serving, dirRev, fs, nextIno, nodes, ops, hs, nOpen, used, crashed,
          created, rt, mk>>

NoNode == [kind |-> "none", path |-> <<>>]
\* directoryFactory.NewDirectory
NewDirectory(path) == [kind |-> "dir", path |-> path]
\* fileFactory.NewFile
NewFile(path) == [kind |-> "file", path |-> path]

ZeroAttr == [ino |-> 0, mode |-> [isDir |-> FALSE, perm |-> 0], size |-> 0]

\* os.FileInfo.Mode(): the permission bits and the directory bit
FileMode(info) == [isDir |-> info.kind = "dir", perm |-> info.mode]

IdleOp ==
  [pc |-> "idle", kind |-> "none", node |-> NoNode,
   name |-> "", name2 |-> "", target |-> NoNode, flags |-> {}, perm |-> 0,
   data |-> <<>>, off |-> 0,
   child |-> NoNode, attr |-> ZeroAttr, fd |-> 0, info |-> NoEntry,
   err |-> "nil", perr |-> "-", rnode |-> NoNode, rents |-> <<>>,
   rdata |-> <<>>, size |-> 0, trace |-> <<>>,
   \* history: the request data as sent, the real entry at Lookup's stat and
   \* at Attr's stat, the real children at ReadDir, the write ReadAll follows
   data0 |-> <<>>, g0 |-> NoEntry, g1 |-> NoEntry, gkids |-> {},
   expect |-> [node |-> NoNode, path |-> <<>>, data |-> <<>>, prevLen |-> 0],
   \* history: the real tree before and after the operation's filesystem call
   f0 |-> NoFs, f1 |-> NoFs,
   \* history: ReadDirAll runs on the node of the last Mkdir, tree untouched
   fresh |-> FALSE,
   \* history: the inode of the file Write's handle refers to
   wino |-> 0]

NoRT == IdleOp.expect

\* the real entry at a path and the real children of a directory
Truth(f, path) ==
  LET q == Resolve(path) IN IF q \in Paths THEN f[q] ELSE NoEntry
RealChildren(f, path) ==
  {[name |-> q[Len(q)], ino |-> f[q].ino, isDir |-> f[q].kind = "dir"] :
     q \in Children(f, Resolve(path))}

IdleHandle ==
  [st |-> "off", event |-> "", fns |-> <<>>, i |-> 0, wg |-> 0,
   units |-> <<>>, called |-> <<>>]

(***************************************************************************)
(* HookHandler                                                             *)
(***************************************************************************)
NoSubscribers == \A e \in AllEvents : hh[e] = <<>>

Registrations == LET F[S \in SUBSET AllEvents] ==
                       IF S = {} THEN 0
                       ELSE LET e == CHOOSE x \in S : TRUE
                            IN Len(hh[e]) + F[S \ {e}]
                 IN F[AllEvents]

\* HookHandler.Register: hh[event] = append(hh[event], fn)
Register(h, event, fn) == [h EXCEPT ![event] = Append(h[event], fn)]

\* mirrorFS.WithHook, called before the filesystem is served
WithHook(event, fn) ==
  /\ ~serving
  /\ Registrations < MaxReg
  /\ hh' = Register(hh, event, fn)
  /\ UNCHANGED <<serving, dirRev, fs, nextIno, nodes, ops, hs, nOpen, used, crashed, created, rt, mk>>

\* fs.Serve(conn, mirrFS): requests arrive from here on
Serve ==
  /\ ~serving
  /\ serving' = TRUE
  /\ UNCHANGED <<hh, dirRev, fs, nextIno, nodes, ops, hs, nOpen, used, crashed, created, rt, mk>>

\* Handle: fns = append(hh[event], hh["*"]...)
HandleFns(h, event) == h[event] \o h["*"]

\* variant: the operation dispatches under the wildcard name
DispatchedWildcard(o) == [ev |-> "*", err |-> o.perr]

\* the dispatch an operation makes at pc = <event name>
Dispatched(o) == [ev |-> o.pc, err |-> o.perr]
SysCall == [ev |-> "sys", err |-> "-"]
(***************************************************************************)
(* Initial state: nothing registered, not yet serving, the mirrored tree   *)
(* holds directory a and file a/b, and the serving collaborator holds the  *)
(* root node and the nodes of these two entries.                           *)
(***************************************************************************)
InitFs ==
  [q \in Paths |->
     IF q = <<>> THEN [kind |-> "dir", ino |-> 1, mode |-> 493, data |-> <<>>]
     ELSE IF q = <<"a">> THEN [kind |-> "dir", ino |-> 2, mode |-> 493, data |-> <<>>]
     ELSE IF q = <<"a", "b">> THEN [kind |-> "file", ino |-> 3, mode |-> 420, data |-> <<1, 2>>]
     ELSE NoEntry]

\* mirrorFS.Root
Root == NewDirectory(RootPath)

Init ==
  /\ hh = [e \in AllEvents |-> <<>>]
  /\ serving = FALSE
  /\ dirRev \in {"part_001", "dir.go"}
  /\ fs = InitFs
  /\ nextIno = 4
  /\ nodes = {Root, NewDirectory(<<"a">>), NewFile(<<"a", "b">>)}
  /\ ops = [p \in Procs |-> IdleOp]
  /\ hs = [p \in Procs |-> IdleHandle]
  /\ nOpen = 0
  /\ used = 0
  /\ crashed = FALSE
  /\ created = {}
  /\ rt = NoRT
  /\ mk = NoNode

(***************************************************************************)
(* Steps of the node operations.                                           *)
(***************************************************************************)
Done(o) == [o EXCEPT !.pc = "done"]

Sys(o) == [o EXCEPT !.trace = Append(o.trace, SysCall)]

\* the node Attr runs on: Lookup calls Attr on the node it constructed
AttrNode(o) == IF o.kind = "Lookup" THEN o.child ELSE o.node

\* variant: Lookup goes on without looking at the error Attr returned
AttrReturnUnchecked(o) ==
  IF o.kind = "Lookup"
  THEN [o EXCEPT !.pc = "Lookup:end", !.perr = "nil", !.err = "nil"]
  ELSE Done(o)

\* Attr returns o.err to its caller: the serving collaborator, or Lookup
AttrReturn(o) ==
  IF o.kind = "Lookup"
  THEN IF o.err # "nil"
       THEN Done(o)
       ELSE [o EXCEPT !.pc = "Lookup:end", !.perr = "nil"]
  ELSE Done(o)

\* dir.Create: the path the file is opened at and the File node is bound to
CreatePath(o) ==
  IF dirRev = "dir.go" THEN Rel(o.name) ELSE Join(o.node.path, o.name)

\* variant: Setattr makes a filesystem call between its two dispatches
SetattrBodyCalls(o) == [Sys(o) EXCEPT !.pc = "Setattr:end"]

\* dir.Setattr: between the two dispatches there is only a comment; nothing of
\* the request is applied and nothing is written to the response
SetattrBody(o) == [o EXCEPT !.pc = "Setattr:end"]

\* the statement after the Handle call at o.pc; HandleEvent returns after it
AfterHandle(o) ==
  IF o.kind = "HandleEvent" THEN Done(o) ELSE
  CASE o.pc = "attr:start" -> [o EXCEPT !.pc = "attr:stat"]
    [] o.pc = "attr:end" -> AttrReturn(o)
    [] o.pc = "Attr:start" -> [o EXCEPT !.pc = "Attr:stat"]
    [] o.pc = "Attr:end" -> AttrReturn(o)
    [] o.pc = "Lookup:start" -> [o EXCEPT !.pc = "Lookup:stat"]
    [] o.pc = "Lookup:end" -> Done([o EXCEPT !.rnode = o.child])
    [] o.pc = "ReadDirAll:start" -> [o EXCEPT !.pc = "ReadDirAll:sys"]
    [] o.pc = "ReadDirAll:end" -> Done(o)
    [] o.pc = "Setattr:start" -> SetattrBody(o)
    [] o.pc = "Setattr:end" -> Done(o)
    [] o.pc = "Create:start" -> [o EXCEPT !.pc = "Create:open"]
    [] o.pc = "Create:end" -> Done([o EXCEPT !.rnode = NewFile(CreatePath(o))])
    [] o.pc = "Remove:start" -> [o EXCEPT !.pc = "Remove:sys"]
    [] o.pc = "Remove:end" -> Done(o)
    [] o.pc = "Mkdir:start" -> [o EXCEPT !.pc = "Mkdir:sys"]
    [] o.pc = "Mkdir:end" -> Done([o EXCEPT !.rnode = o.child])
    [] o.pc = "Rename:start" -> [o EXCEPT !.pc = "Rename:sys"]
    [] o.pc = "Rename:end" -> Done(o)
    [] o.pc = "ReadAll:start" -> [o EXCEPT !.pc = "ReadAll:sys"]
    [] o.pc = "ReadAll:end" -> Done(o)
    [] o.pc = "Write:start" -> [o EXCEPT !.pc = "Write:stat"]
    [] o.pc = "Write:end" -> Done(o)

\* Handle returns at once when neither the event nor "*" has a callback
NoFuncs(h, event) == Len(h[event]) = 0 /\ Len(h["*"]) = 0

\* the operation records the dispatch it makes at o.pc
Traced(o) == [o EXCEPT !.trace = Append(o.trace, Dispatched(o))]

\* The operation runs on through the Handle calls that find no callback (they
\* return at once and touch nothing shared), up to its next filesystem call,
\* its next Handle call that launches callbacks, or its return.
RECURSIVE Run(_)
Run(o) ==
  IF o.pc \in AllEvents /\ NoFuncs(hh, o.pc) THEN Run(AfterHandle(Traced(o))) ELSE o

\* the operation of task p moves to o; a returned node reaches the caller
SetOp(p, o) ==
  LET o2 == Run(o)
  IN /\ ops' = [ops EXCEPT ![p] = o2]
     /\ nodes' = IF o2.pc = "done" /\ o2.rnode # NoNode
                 THEN nodes \cup {o2.rnode} ELSE nodes
     /\ created' = IF o2.pc = "done" /\ o2.rnode # NoNode /\ o2.kind = "Create"
                   THEN created \cup {o2.rnode} ELSE created

\* history: a change of the file last written invalidates the record
RtAfter(f2) ==
  IF rt # NoRT /\ f2[rt.path] # fs[rt.path] THEN NoRT ELSE rt

\* history: any change of the tree ends "immediately after Mkdir"
MkAfter(f2) == IF f2 # fs THEN NoNode ELSE mk

\* history: a successful Write at offset 0 through a node Create returned
RtWrite(o, f2) ==
  LET q == Resolve(o.node.path)
  IN IF o.off = 0 /\ o.node \in created /\ q \in Paths /\ fs[q].kind = "file"
        /\ fs[q].ino = o.fd
     THEN [node |-> o.node, path |-> q, data |-> o.data,
           prevLen |-> Len(fs[q].data)]
     ELSE RtAfter(f2)

(***************************************************************************)
(* Requests.  The serving collaborator calls a node operation on a node it *)
(* holds; task 2 is used only while task 1 is busy.                        *)
(***************************************************************************)
Busy(p) == ops[p].pc \notin {"idle", "done"}

Budget(p) ==
  IF p = 2 \/ ops[2].pc # "idle" THEN MaxConcOps
  ELSE IF ~NoSubscribers THEN MaxHookedOps
  ELSE MaxOps

CanCall(p) ==
  /\ serving
  /\ ~crashed
  /\ ~Busy(p)
  /\ used < Budget(p)
  /\ p = 2 => (Busy(1) /\ NoSubscribers /\ ops[2].pc = "idle")

NewOp(kind, node) ==
  [IdleOp EXCEPT !.pc = StartEvent(kind), !.kind = kind, !.node = node]

Begin(p, o) ==
  /\ CanCall(p)
  /\ SetOp(p, o)
  /\ hs' = [hs EXCEPT ![p] = IdleHandle]
  /\ used' = used + 1
  /\ UNCHANGED <<hh, serving, dirRev, fs, nextIno, nOpen, crashed, rt, mk>>

DirNodes == {n \in nodes : n.kind = "dir"}
FileNodes == {n \in nodes : n.kind = "file"}

CreateFlags == {{"CREATE", "WRONLY"}, {"CREATE", "WRONLY", "TRUNC"},
                {"CREATE", "WRONLY", "EXCL"}}
WriteFlags == {{}, {"TRUNC"}, {"APPEND"}}

CallDirAttr(p) == \E d \in DirNodes : Begin(p, NewOp("attr", d))

CallLookup(p) ==
  \E d \in DirNodes, nm \in Names :
    Begin(p, [NewOp("Lookup", d) EXCEPT !.name = nm])

CallReadDirAll(p) == \E d \in DirNodes : Begin(p, NewOp("ReadDirAll", d))

CallSetattr(p) ==
  \E d \in DirNodes, m \in Perms :
    Begin(p, [NewOp("Setattr", d) EXCEPT !.perm = m])

CallCreate(p) ==
  \E d \in DirNodes, nm \in Names, fl \in CreateFlags, m \in Perms :
    /\ Join(d.path, nm) \in Paths
    /\ Begin(p, [NewOp("Create", d) EXCEPT !.name = nm, !.flags = fl, !.perm = m])

CallRemove(p) ==
  \E d \in DirNodes, nm \in Names :
    Begin(p, [NewOp("Remove", d) EXCEPT !.name = nm])

CallMkdir(p) ==
  \E d \in DirNodes, nm \in Names, m \in Perms :
    /\ Join(d.path, nm) \in Paths
    /\ Begin(p, [NewOp("Mkdir", d) EXCEPT !.name = nm, !.perm = m])

\* only part_001 has Rename; an entry is never moved deeper than it was
CallRename(p) ==
  \E d \in DirNodes, nm \in Names, t \in nodes, nm2 \in Names :
    /\ dirRev = "part_001"
    /\ t.kind = "dir" => Len(t.path) <= Len(d.path)
    /\ Begin(p, [NewOp("Rename", d) EXCEPT !.name = nm, !.target = t, !.name2 = nm2])

CallFileAttr(p) == \E f \in FileNodes : Begin(p, NewOp("Attr", f))

CallReadAll(p) == \E f \in FileNodes : Begin(p, NewOp("ReadAll", f))

CallWrite(p) ==
  \E f \in FileNodes, b \in DataSet, off \in Offsets, fl \in WriteFlags :
    Begin(p, [NewOp("Write", f) EXCEPT !.data = b, !.data0 = b, !.off = off,
                                       !.flags = fl])

(***************************************************************************)
(* HookHandler.Handle, called by task p at pc = <event name>.              *)
(***************************************************************************)
\* Handle finds callbacks: fns is built and the loop is entered
HandleCall(p) ==
  LET o == ops[p]
      fns == HandleFns(hh, o.pc)
  IN /\ ~crashed
     /\ o.pc \in AllEvents
     /\ ~NoFuncs(hh, o.pc)
     /\ hs[p].st \in {"off", "ret"}
     /\ hs' = [hs EXCEPT ![p] =
                 [st |-> "loop", event |-> o.pc, fns |-> fns, i |-> 0,
                  wg |-> 0,
                  units |-> [k \in 1..Len(fns) |-> "new"],
                  called |-> [k \in 1..Len(fns) |-> 0]]]
     /\ ops' = [ops EXCEPT ![p] = Traced(o)]
     /\ UNCHANGED <<hh, serving, dirRev, fs, nextIno, nodes, nOpen, used, crashed, created, rt, mk>>

\* one iteration of "for _, fn := range fns": fn = fns[i], wg.Add(1), go
HandleLaunch(p) ==
  LET h == hs[p]
  IN /\ ~crashed
     /\ h.st = "loop"
     /\ hs' = [hs EXCEPT ![p] =
                 [h EXCEPT !.i = h.i + 1, !.wg = h.wg + 1,
                           !.units[h.i + 1] = "run",
                           !.st = IF h.i + 1 = Len(h.fns) THEN "wait" ELSE "loop"]]
     /\ UNCHANGED <<hh, serving, dirRev, fs, nextIno, nodes, ops, nOpen, used, crashed, created, rt, mk>>

\* The callback the k-th launched unit invokes.  The closure reads the loop
\* variable fn, which all iterations share: the unit calls whatever fn holds
\* when it runs, the callback of the iteration the loop has reached.
Callee(h, k) == h.fns[h.i]

\* variant: the unit returns without wg.Done()
HandleUnitNoDone(p, k) ==
  LET h == hs[p]
  IN /\ ~crashed
     /\ k \in 1..Len(h.units)
     /\ h.units[k] = "run"
     /\ hs' = [hs EXCEPT ![p] =
                 [h EXCEPT !.units[k] = "done", !.called[k] = Callee(h, k)]]
     /\ UNCHANGED <<hh, serving, dirRev, fs, nextIno, nodes, ops, nOpen, used, crashed, created, rt, mk>>

\* the k-th unit runs: fn(data); wg.Done()
HandleUnit(p, k) ==
  LET h == hs[p]
  IN /\ ~crashed
     /\ k \in 1..Len(h.units)
     /\ h.units[k] = "run"
     /\ hs' = [hs EXCEPT ![p] =
                 [h EXCEPT !.units[k] = "done", !.called[k] = Callee(h, k),
                           !.wg = h.wg - 1]]
     /\ UNCHANGED <<hh, serving, dirRev, fs, nextIno, nodes, ops, nOpen, used, crashed, created, rt, mk>>

\* wg.Wait() lets Handle go on once the counter is zero
WaitOver(h) == h.st = "wait" /\ h.wg = 0

HandleReturn(p) ==
  /\ ~crashed
  /\ WaitOver(hs[p])
  /\ hs' = [hs EXCEPT ![p].st = "ret"]
  /\ SetOp(p, AfterHandle(ops[p]))
  /\ UNCHANGED <<hh, serving, dirRev, fs, nextIno, nOpen, used, crashed, rt, mk>>

(***************************************************************************)
(* Directory node                                                          *)
(***************************************************************************)
At(p, pc) == ~crashed /\ ops[p].pc = pc

\* dir.Attr: os.Stat(d.path); a.Inode, a.Mode
DirAttrFill(a, info) == [a EXCEPT !.ino = info.ino, !.mode = FileMode(info)]

DirAttrStat(p) ==
  LET o == [Sys(ops[p]) EXCEPT !.g1 = Truth(fs, AttrNode(ops[p]).path)]
      st == osStat(fs, AttrNode(o).path)
  IN /\ At(p, "attr:stat")
     /\ IF st.err # "nil"
        THEN SetOp(p, AttrReturn([o EXCEPT !.err = "ENOENT"]))
        ELSE SetOp(p, [o EXCEPT !.attr = DirAttrFill(o.attr, st.info),
                                !.pc = "attr:end"])
     /\ UNCHANGED <<hh, serving, dirRev, fs, nextIno, hs, nOpen, used, crashed, rt, mk>>

\* dir.Lookup: os.Stat(fullPath), then the node for it
LookupNode(info, fullPath) ==
  IF info.kind = "dir" THEN NewDirectory(fullPath) ELSE NewFile(fullPath)

LookupStat(p) ==
  LET o == Sys(ops[p])
      fullPath == Join(o.node.path, o.name)
      st == osStat(fs, fullPath)
  IN /\ At(p, "Lookup:stat")
     /\ IF st.err # "nil"
        THEN SetOp(p, Done([o EXCEPT !.err = "ENOENT", !.g0 = Truth(fs, fullPath)]))
        ELSE LET node == LookupNode(st.info, fullPath)
             IN SetOp(p, [o EXCEPT !.child = node, !.g0 = Truth(fs, fullPath),
                                   !.pc = IF node.kind = "dir" THEN "attr:start"
                                          ELSE "Attr:start"])
     /\ UNCHANGED <<hh, serving, dirRev, fs, nextIno, hs, nOpen, used, crashed, rt, mk>>

\* dir.ReadDirAll: toReturn[i] is assigned the entry holding only the name,
\* before Inode and Type are set on the local copy newEntry
Dirents(entries) ==
  [i \in 1..Len(entries) |->
     [name |-> entries[i].name, ino |-> 0, type |-> "DT_Unknown"]]

ReadDirAllSys(p) ==
  LET o == [Sys(ops[p]) EXCEPT !.gkids = RealChildren(fs, ops[p].node.path),
                               !.fresh = (mk # NoNode /\ mk = ops[p].node)]
      r == ioutilReadDir(fs, o.node.path)
  IN /\ At(p, "ReadDirAll:sys")
     /\ IF r.err # "nil"
        THEN SetOp(p, [o EXCEPT !.err = r.err, !.perr = r.err, !.pc = "ReadDirAll:end"])
        ELSE SetOp(p, [o EXCEPT !.rents = Dirents(r.entries), !.perr = "nil",
                                !.pc = "ReadDirAll:end"])
     /\ UNCHANGED <<hh, serving, dirRev, fs, nextIno, hs, nOpen, used, crashed, rt, mk>>

\* dir.Create: os.OpenFile(path, req.Flags, req.Mode)
CreateOpen(p) ==
  LET r == osOpenFile(fs, nextIno, CreatePath(ops[p]), ops[p].flags, ops[p].perm)
      o == [Sys(ops[p]) EXCEPT !.f0 = fs, !.f1 = r.fs]
  IN /\ At(p, "Create:open")
     /\ fs' = r.fs
     /\ nextIno' = r.next
     /\ IF r.err # "nil"
        THEN /\ SetOp(p, Done([o EXCEPT !.err = r.err]))
             /\ nOpen' = nOpen
        ELSE /\ SetOp(p, [o EXCEPT !.fd = r.ino, !.pc = "Create:close"])
             /\ nOpen' = nOpen + 1
     /\ rt' = RtAfter(fs')
     /\ mk' = MkAfter(fs')
     /\ UNCHANGED <<hh, serving, dirRev, hs, used, crashed>>

\* dir.Create: f.Close()
CreateClose(p) ==
  LET o == Sys(ops[p])
  IN /\ At(p, "Create:close")
     /\ nOpen' = nOpen - 1
     /\ SetOp(p, [o EXCEPT !.fd = 0, !.perr = "nil", !.pc = "Create:end"])
     /\ UNCHANGED <<hh, serving, dirRev, fs, nextIno, hs, used, crashed, rt, mk>>

\* dir.Remove: os.Remove(req.Name)
RemovePath(o) == Rel(o.name)

RemoveSys(p) ==
  LET r == osRemove(fs, RemovePath(ops[p]))
      o == [Sys(ops[p]) EXCEPT !.f0 = fs, !.f1 = r.fs]
  IN /\ At(p, "Remove:sys")
     /\ fs' = r.fs
     /\ SetOp(p, [o EXCEPT !.err = r.err, !.perr = r.err, !.pc = "Remove:end"])
     /\ rt' = RtAfter(fs')
     /\ mk' = MkAfter(fs')
     /\ UNCHANGED <<hh, serving, dirRev, nextIno, hs, nOpen, used, crashed>>

\* variant: the bare name, as dir.Remove passes it
MkdirPathBare(o) == Rel(o.name)

\* dir.Mkdir: fullPath := filepath.Join(d.path, req.Name)
MkdirPath(o) == Join(o.node.path, o.name)

\* dir.Mkdir: os.Mkdir(fullPath, req.Mode); the end event of the failing
\* path carries a nil error
MkdirSys(p) ==
  LET fullPath == MkdirPath(ops[p])
      r == osMkdir(fs, nextIno, fullPath, ops[p].perm)
      o == [Sys(ops[p]) EXCEPT !.f0 = fs, !.f1 = r.fs]
  IN /\ At(p, "Mkdir:sys")
     /\ fs' = r.fs
     /\ nextIno' = r.next
     /\ IF r.err # "nil"
        THEN SetOp(p, [o EXCEPT !.err = r.err, !.perr = "nil", !.pc = "Mkdir:end"])
        ELSE SetOp(p, [o EXCEPT !.child = NewDirectory(fullPath), !.perr = "nil",
                                !.pc = "Mkdir:end"])
     /\ rt' = RtAfter(fs')
     /\ mk' = IF r.err = "nil" THEN NewDirectory(fullPath) ELSE MkAfter(fs')
     /\ UNCHANGED <<hh, serving, dirRev, hs, nOpen, used, crashed>>

\* variant: any node passes for a directory of this implementation
IsDirAny(node) == TRUE

\* dir.Rename: newDir, ok := node.(*dir)
IsDir(node) == node.kind = "dir"

\* dir.Rename: oldPath := filepath.Join(d.path, req.OldName)
RenameOldPath(o) == Join(o.node.path, o.name)

\* variant: the new name is joined with the directory the call is made on
RenameNewPathOwnDir(o) == Join(o.node.path, o.name2)

\* dir.Rename: newPath := filepath.Join(newDir.path, req.NewName)
RenameNewPath(o) == Join(o.target.path, o.name2)

\* dir.Rename: the type assertion, then os.Rename(oldPath, newPath)
RenameSys(p) ==
  LET o0 == [ops[p] EXCEPT !.f0 = fs, !.f1 = fs]
      oldPath == RenameOldPath(o0)
      newPath == RenameNewPath(o0)
      r == osRename(fs, oldPath, newPath)
      o == [Sys(o0) EXCEPT !.f1 = r.fs]
  IN /\ At(p, "Rename:sys")
     /\ IF ~IsDir(o.target)
        THEN /\ fs' = fs
             /\ SetOp(p, [o0 EXCEPT !.err = "ETYPE", !.perr = "ETYPE",
                                    !.pc = "Rename:end"])
        ELSE /\ fs' = r.fs
             /\ SetOp(p, [o EXCEPT !.err = r.err, !.perr = r.err, !.pc = "Rename:end"])
     /\ rt' = RtAfter(fs')
     /\ mk' = MkAfter(fs')
     /\ UNCHANGED <<hh, serving, dirRev, nextIno, hs, nOpen, used, crashed>>

(***************************************************************************)
(* File node                                                               *)
(***************************************************************************)
\* variant: the size is left out
FileAttrFillNoSize(a, info) ==
  [a EXCEPT !.ino = info.ino, !.mode = FileMode(info)]

\* file.Attr: os.Stat(f.path); a.Size, a.Inode, a.Mode
FileAttrFill(a, info) ==
  [a EXCEPT !.size = Len(info.data), !.ino = info.ino, !.mode = FileMode(info)]

FileAttrStat(p) ==
  LET o == [Sys(ops[p]) EXCEPT !.g1 = Truth(fs, AttrNode(ops[p]).path)]
      st == osStat(fs, AttrNode(o).path)
  IN /\ At(p, "Attr:stat")
     /\ IF st.err # "nil"
        THEN SetOp(p, [o EXCEPT !.err = "ENOENT", !.perr = st.err, !.pc = "Attr:end"])
        ELSE SetOp(p, [o EXCEPT !.attr = FileAttrFill(o.attr, st.info),
                                !.perr = "nil", !.pc = "Attr:end"])
     /\ UNCHANGED <<hh, serving, dirRev, fs, nextIno, hs, nOpen, used, crashed, rt, mk>>

\* file.ReadAll: ioutil.ReadFile(f.path)
ReadAllSys(p) ==
  LET o == [Sys(ops[p]) EXCEPT !.expect = IF rt.node = ops[p].node THEN rt ELSE NoRT]
      r == ioutilReadFile(fs, o.node.path)
  IN /\ At(p, "ReadAll:sys")
     /\ SetOp(p, [o EXCEPT !.rdata = r.data, !.err = r.err, !.perr = r.err,
                           !.pc = "ReadAll:end"])
     /\ UNCHANGED <<hh, serving, dirRev, fs, nextIno, hs, nOpen, used, crashed, rt, mk>>

\* file.Write: os.Stat(f.path)
WriteStat(p) ==
  LET o == Sys(ops[p])
      st == osStat(fs, o.node.path)
  IN /\ At(p, "Write:stat")
     /\ IF st.err # "nil"
        THEN SetOp(p, Done([o EXCEPT !.err = st.err]))
        ELSE SetOp(p, [o EXCEPT !.info = st.info, !.pc = "Write:open"])
     /\ UNCHANGED <<hh, serving, dirRev, fs, nextIno, hs, nOpen, used, crashed, rt, mk>>

\* file.Write: os.OpenFile(f.path, int(req.Flags)|os.O_WRONLY, fInfo.Mode())
WriteOpen(p) ==
  LET o == Sys(ops[p])
      r == osOpenFile(fs, nextIno, o.node.path, o.flags \cup {"WRONLY"}, o.info.mode)
  IN /\ At(p, "Write:open")
     /\ fs' = r.fs
     /\ nextIno' = r.next
     /\ IF r.err # "nil"
        THEN /\ SetOp(p, Done([o EXCEPT !.err = r.err]))
             /\ nOpen' = nOpen
        ELSE /\ SetOp(p, [o EXCEPT !.fd = r.ino, !.pc = "Write:write"])
             /\ nOpen' = nOpen + 1
     /\ rt' = RtAfter(fs')
     /\ mk' = MkAfter(fs')
     /\ UNCHANGED <<hh, serving, dirRev, hs, used, crashed>>

\* file.Write: file.WriteAt(req.Data, req.Offset), then file.Close() and
\* resp.Size; a failing WriteAt returns with the handle still open
WriteWrite(p) ==
  LET w == fileWriteAt(fs, ops[p].fd, ops[p].flags, ops[p].data, ops[p].off)
      o == [Sys(ops[p]) EXCEPT !.f0 = fs, !.f1 = w.fs, !.wino = ops[p].fd]
  IN /\ At(p, "Write:write")
     /\ fs' = w.fs
     /\ IF w.err # "nil"
        THEN /\ SetOp(p, Done([o EXCEPT !.err = w.err]))
             /\ nOpen' = nOpen
        ELSE /\ SetOp(p, [Sys(o) EXCEPT !.fd = 0, !.size = o.off + w.n,
                                        !.perr = "nil", !.pc = "Write:end"])
             /\ nOpen' = nOpen - 1
     /\ rt' = IF w.err = "nil" THEN RtWrite(o, w.fs) ELSE RtAfter(fs')
     /\ mk' = MkAfter(fs')
     /\ UNCHANGED <<hh, serving, dirRev, nextIno, hs, used, crashed>>

(***************************************************************************)
(* Next-state relation                                                     *)
(***************************************************************************)
Next ==
  \/ \E e \in HookedEvents, s \in Subs : WithHook(e, s)
  \/ Serve
  \/ \E p \in Procs :
       \/ CallDirAttr(p)
       \/ CallLookup(p)
       \/ CallReadDirAll(p)
       \/ CallSetattr(p)
       \/ CallCreate(p)
       \/ CallRemove(p)
       \/ CallMkdir(p)
       \/ CallRename(p)
       \/ CallFileAttr(p)
       \/ CallReadAll(p)
       \/ CallWrite(p)
       \/ HandleCall(p)
       \/ HandleLaunch(p)
       \/ \E k \in 1..(2 * MaxReg) : HandleUnit(p, k)
       \/ HandleReturn(p)
       \/ DirAttrStat(p)
       \/ LookupStat(p)
       \/ ReadDirAllSys(p)
       \/ CreateOpen(p)
       \/ CreateClose(p)
       \/ RemoveSys(p)
       \/ MkdirSys(p)
       \/ RenameSys(p)
       \/ FileAttrStat(p)
       \/ ReadAllSys(p)
       \/ WriteStat(p)
       \/ WriteOpen(p)
       \/ WriteWrite(p)

Spec == Init /\ [][Next]_vars

(***************************************************************************)
(* Callbacks that do more than observe.  A callback is code of the hook    *)
(* author: it may panic, and it may write through the references its       *)
(* payload carries.                                                        *)
(***************************************************************************)
\* the keys of the payload map each Handle call passes
PayloadKeys(event) ==
  CASE event \in {"attr:start", "attr:end"} -> {"directory", "context", "attr"}
    [] event = "Lookup:start" -> {"directory", "context", "req", "resp"}
    [] event = "Lookup:end" -> {"directory", "node", "error"}
    [] event = "ReadDirAll:start" -> {"directory", "context"}
    [] event = "ReadDirAll:end" -> {"directory", "entries", "error"}
    [] event \in {"Setattr:start", "Setattr:end", "Create:start"} ->
         {"directory", "context", "request", "response"}
    [] event = "Create:end" -> {"directory", "node", "handle", "error"}
    [] event \in {"Remove:start", "Mkdir:start", "Rename:start"} ->
         {"directory", "context", "request"}
    [] event \in {"Remove:end", "Rename:end"} -> {"directory", "error"}
    [] event = "Mkdir:end" -> {"directory", "node", "error"}
    [] event = "Attr:start" -> {"file", "context", "attr"}
    [] event \in {"Attr:end", "Write:end"} -> {"file", "error"}
    [] event = "ReadAll:start" -> {"file", "context"}
    [] event = "ReadAll:end" -> {"file", "content", "error"}
    [] event = "Write:start" -> {"file", "context", "request", "response"}

\* what a callback can reach: *fuse.Attr through "attr" and "resp", the
\* request's byte slice through "request"
Scribbled(o, keys) ==
  [o EXCEPT !.attr = IF keys \cap {"attr", "resp"} # {}
                     THEN [ZeroAttr EXCEPT !.size = 1] ELSE o.attr,
            !.data = IF "request" \in keys THEN <<0>> ELSE o.data]

\* the k-th unit runs a callback that panics: no recover, wg.Done() is not
\* reached and the Go runtime ends the process
HandleUnitPanic(p, k) ==
  LET h == hs[p]
  IN /\ ~crashed
     /\ k \in 1..Len(h.units)
     /\ h.units[k] = "run"
     /\ hs' = [hs EXCEPT ![p] =
                 [h EXCEPT !.units[k] = "panicked", !.called[k] = Callee(h, k)]]
     /\ crashed' = TRUE
     /\ UNCHANGED <<hh, serving, dirRev, fs, nextIno, nodes, ops, nOpen, used, created, rt, mk>>

\* the k-th unit runs a callback that writes through its payload
HandleUnitWrites(p, k) ==
  LET h == hs[p]
  IN /\ ~crashed
     /\ k \in 1..Len(h.units)
     /\ h.units[k] = "run"
     /\ hs' = [hs EXCEPT ![p] =
                 [h EXCEPT !.units[k] = "done", !.called[k] = Callee(h, k),
                           !.wg = h.wg - 1]]
     /\ ops' = [ops EXCEPT ![p] = Scribbled(ops[p], PayloadKeys(h.event))]
     /\ UNCHANGED <<hh, serving, dirRev, fs, nextIno, nodes, nOpen, used, crashed, created, rt, mk>>

NextAnyHook ==
  \/ Next
  \/ \E p \in Procs, k \in 1..(2 * MaxReg) : HandleUnitPanic(p, k)
  \/ \E p \in Procs, k \in 1..(2 * MaxReg) : HandleUnitWrites(p, k)

\* the program with callbacks of any behaviour
SpecAnyHook == Init /\ [][NextAnyHook]_vars

(***************************************************************************)
(* Concurrent dispatch.  Both request tasks run operations while callbacks *)
(* are registered, so that two Handle calls are in progress at once; every *)
(* callback returns.  The Go scheduler runs every goroutine that can run:  *)
(* the loop, each launched unit and the return from wg.Wait() are weakly   *)
(* fair.                                                                   *)
(***************************************************************************)
CanCallConc(p) ==
  /\ serving
  /\ ~crashed
  /\ ~Busy(p)
  /\ used < MaxDispatchOps

BeginConc(p, o) ==
  /\ CanCallConc(p)
  /\ SetOp(p, o)
  /\ hs' = [hs EXCEPT ![p] = IdleHandle]
  /\ used' = used + 1
  /\ UNCHANGED <<hh, serving, dirRev, fs, nextIno, nOpen, crashed, rt, mk>>

CallSetattrConc(p) ==
  \E m \in Perms : BeginConc(p, [NewOp("Setattr", Root) EXCEPT !.perm = m])

CallLookupConc(p) ==
  \E d \in DirNodes, nm \in Names :
    BeginConc(p, [NewOp("Lookup", d) EXCEPT !.name = nm])

NextDispatch ==
  \/ \E e \in HookedEvents, s \in Subs : WithHook(e, s)
  \/ Serve
  \/ \E p \in Procs :
       \/ CallSetattrConc(p)
       \/ CallLookupConc(p)
       \/ HandleCall(p)
       \/ HandleLaunch(p)
       \/ \E k \in 1..(2 * MaxReg) : HandleUnit(p, k)
       \/ HandleReturn(p)
       \/ LookupStat(p)
       \/ DirAttrStat(p)
       \/ FileAttrStat(p)

FairDispatch ==
  \A p \in Procs :
    /\ WF_vars(HandleLaunch(p))
    /\ WF_vars(\E k \in 1..(2 * MaxReg) : HandleUnit(p, k))
    /\ WF_vars(HandleReturn(p))

\* dispatch is the same in both revisions of the directory node
InitDispatch == Init /\ dirRev = "part_001"

SpecDispatch == InitDispatch /\ [][NextDispatch]_vars /\ FairDispatch

(***************************************************************************)
(* Direct dispatch.  HandleEvent is an exported method of both node kinds  *)
(* and passes any event name, the reserved name "*" included, to Handle.   *)
(***************************************************************************)
\* dir.HandleEvent / file.HandleEvent: d.HookHandler.Handle(event, data)
CallHandleEvent(p) ==
  \E n \in nodes, e \in AllEvents :
    /\ serving
    /\ ~crashed
    /\ p = 1
    /\ ~Busy(p)
    /\ used < MaxHandleEvents
    /\ SetOp(p, [IdleOp EXCEPT !.pc = e, !.kind = "HandleEvent", !.node = n])
    /\ hs' = [hs EXCEPT ![p] = IdleHandle]
    /\ used' = used + 1
    /\ UNCHANGED <<hh, serving, dirRev, fs, nextIno, nOpen, crashed, rt, mk>>

NextHandleEvent ==
  \/ \E e \in HookedEvents, s \in Subs : WithHook(e, s)
  \/ Serve
  \/ \E p \in Procs :
       \/ CallHandleEvent(p)
       \/ HandleCall(p)
       \/ HandleLaunch(p)
       \/ \E k \in 1..(2 * MaxReg) : HandleUnit(p, k)
       \/ HandleReturn(p)

SpecHandleEvent == InitDispatch /\ [][NextHandleEvent]_vars

(***************************************************************************)
(* Properties                                                              *)
(***************************************************************************)
Range(sq) == {sq[i] : i \in 1..Len(sq)}
Count(sq, x) == Cardinality({i \in 1..Len(sq) : sq[i] = x})
Distinct(sq) == \A i, j \in 1..Len(sq) : sq[i] = sq[j] => i = j
EventsOf(t) == [i \in 1..Len(t) |-> t[i].ev]

\* C1: every operation that has returned dispatched its own start event once,
\* before its first filesystem call, and its own end event once, after its
\* last filesystem call.
C1_StartAndEndOnEveryPath ==
  \A p \in Procs :
    ops[p].pc = "done" =>
      LET t == EventsOf(ops[p].trace)
      IN /\ Len(t) >= 2
         /\ t[1] = StartEvent(ops[p].kind)
         /\ t[Len(t)] = EndEvent(ops[p].kind)
         /\ Count(t, StartEvent(ops[p].kind)) = 1
         /\ Count(t, EndEvent(ops[p].kind)) = 1

\* C2: when Handle has returned from dispatching an event under which N
\* distinct callbacks (and no wildcard callback) are registered, each of the N
\* was invoked exactly once.
C2_EachSubscriberOnce ==
  \A p \in Procs :
    (hs[p].st = "ret" /\ hh["*"] = <<>> /\ Distinct(hs[p].fns)) =>
      \A k \in 1..Len(hs[p].fns) : Count(hs[p].called, hs[p].fns[k]) = 1

\* C3: when an operation has returned after dispatching its end event, every
\* callback matching that event has been run to completion by that dispatch.
C3_EndSubscribersCompleted ==
  \A p \in Procs :
    (ops[p].pc = "done" /\ hs[p].st = "ret"
       /\ hs[p].event = EndEvent(ops[p].kind)) =>
      \A s \in Range(HandleFns(hh, hs[p].event)) :
        \E k \in 1..Len(hs[p].units) :
          hs[p].units[k] = "done" /\ hs[p].called[k] = s

\* C4: when Handle has returned from dispatching event E, the callbacks it
\* invoked are exactly those registered under E and those registered under "*".
C4_InvokedExactlyMatching ==
  \A p \in Procs :
    hs[p].st = "ret" =>
      Range(hs[p].called) = Range(hh[hs[p].event]) \cup Range(hh["*"])

\* C5: a callback that panics leaves the process running.
C5_FaultIsolated ==
  \A p \in Procs :
    (\E k \in 1..Len(hs[p].units) : hs[p].units[k] = "panicked") => ~crashed

\* the response attributes a direct stat of entry e gives
StatAttr(e) ==
  [ino |-> e.ino, mode |-> [isDir |-> e.kind = "dir", perm |-> e.mode],
   size |-> IF e.kind = "dir" THEN 0 ELSE Len(e.data)]

\* C6: whatever the callbacks do, a returned Write wrote the bytes of the
\* request as the caller sent it, and a returned Attr or Lookup filled in the
\* attributes of the real entry.
C6_HooksOnlyObserve ==
  \A p \in Procs :
    (ops[p].pc = "done" /\ ops[p].err = "nil") =>
      /\ ops[p].kind = "Write" => ops[p].data = ops[p].data0
      /\ ops[p].kind \in {"attr", "Attr", "Lookup"} =>
           ops[p].attr = StatAttr(ops[p].g1)

\* C7: a Lookup of a child that exists (the same real entry at Lookup's stat
\* and at the Attr query) succeeds, returns a Directory node for a directory
\* and a File node otherwise, bound to the joined path, and fills the response
\* with the entry's inode, mode and, for a file, size.
C7_LookupExistingChild ==
  \A p \in Procs :
    (ops[p].kind = "Lookup" /\ ops[p].pc = "done"
       /\ ops[p].g0.kind # "none" /\ ops[p].g1 = ops[p].g0) =>
      /\ ops[p].err = "nil"
      /\ ops[p].rnode = [kind |-> IF ops[p].g0.kind = "dir" THEN "dir" ELSE "file",
                         path |-> Join(ops[p].node.path, ops[p].name)]
      /\ ops[p].attr.ino = ops[p].g0.ino
      /\ ops[p].attr.mode = [isDir |-> ops[p].g0.kind = "dir", perm |-> ops[p].g0.mode]
      /\ ops[p].g0.kind = "file" => ops[p].attr.size = Len(ops[p].g0.data)

C7_Witness ==
  \E p \in Procs :
    /\ ops[p].kind = "Lookup" /\ ops[p].pc = "done"
    /\ ops[p].g0.kind = "file" /\ ops[p].g1 = ops[p].g0
    /\ ops[p].rnode.kind = "file" /\ ops[p].attr.size = 2

\* C8: a Lookup of a name that does not exist, at Lookup's stat or at the Attr
\* query on the fresh node, returns no node and ENOENT; and a Lookup never
\* returns any other error.
C8_LookupMissingChild ==
  \A p \in Procs :
    (ops[p].kind = "Lookup" /\ ops[p].pc = "done") =>
      /\ (ops[p].g0.kind = "none" \/ ops[p].g1.kind = "none") =>
           (ops[p].rnode = NoNode /\ ops[p].err = "ENOENT")
      /\ ops[p].err # "nil" => (ops[p].err = "ENOENT" /\ ops[p].rnode = NoNode)

\* the child was there at Lookup's stat and gone at the Attr query
C8_Witness ==
  \E p \in Procs :
    /\ ops[p].kind = "Lookup" /\ ops[p].pc = "done"
    /\ ops[p].g0.kind # "none" /\ ops[p].g1.kind = "none"
    /\ ops[p].err = "ENOENT"

\* C9: a successful ReadDirAll returns one entry per real child, with the
\* child's name, its inode number and the type tag of its kind.
C9_ReadDirAllEntries ==
  \A p \in Procs :
    (ops[p].kind = "ReadDirAll" /\ ops[p].pc = "done" /\ ops[p].err = "nil") =>
      /\ Len(ops[p].rents) = Cardinality(ops[p].gkids)
      /\ {[name |-> e.name, ino |-> e.ino, isDir |-> e.type = "DT_Dir"] :
            e \in Range(ops[p].rents)} = ops[p].gkids
      /\ \A e \in Range(ops[p].rents) : e.type \in {"DT_Dir", "DT_File"}

C11_RemoveJoinedPath ==
  \A p \in Procs :
    (ops[p].kind = "Remove" /\ ops[p].pc = "done" /\ ops[p].err = "nil") =>
      LET q == Join(ops[p].node.path, ops[p].name)
      IN /\ q \in Paths => ops[p].f1[q].kind = "none"
         /\ \A r \in Paths \ {q} : ops[p].f1[r] = ops[p].f0[r]

\* C12: a Create that has succeeded on directory node D left a file at D.path
\* joined with the name, changed no other entry of the tree, and returned a
\* File node whose path designates that same file.
C12_CreateJoinedPath ==
  \A p \in Procs :
    (ops[p].kind = "Create" /\ ops[p].pc = "done" /\ ops[p].err = "nil") =>
      LET q == Join(ops[p].node.path, ops[p].name)
      IN /\ ops[p].f1[q].kind = "file"
         /\ \A r \in Paths \ {q} : ops[p].f1[r] = ops[p].f0[r]
         /\ ops[p].rnode.kind = "file"
         /\ Resolve(ops[p].rnode.path) = q

\* C13: a Mkdir that has succeeded made a directory at D.path joined with the
\* name, where there was none, changed no other entry and returned a
\* Directory node bound to that path; a Mkdir of a missing name under an
\* existing directory succeeds; a Mkdir that has failed returned no node and
\* left the tree as it was; and a ReadDirAll on the node of the last Mkdir,
\* the tree untouched since, succeeds with zero entries.
C13_Mkdir ==
  \A p \in Procs :
    /\ (ops[p].kind = "Mkdir" /\ ops[p].pc = "done") =>
         LET q == Join(ops[p].node.path, ops[p].name)
             d == ops[p].node.path
         IN /\ ops[p].err = "nil" =>
                 /\ ops[p].f0[q].kind = "none"
                 /\ ops[p].f1[q].kind = "dir"
                 /\ ops[p].f1[q].mode = ops[p].perm
                 /\ \A r \in Paths \ {q} : ops[p].f1[r] = ops[p].f0[r]
                 /\ ops[p].rnode = [kind |-> "dir", path |-> q]
            /\ (ops[p].f0[q].kind = "none" /\ Truth(ops[p].f0, d).kind = "dir") =>
                 ops[p].err = "nil"
            /\ ops[p].err # "nil" =>
                 (ops[p].rnode = NoNode /\ ops[p].f1 = ops[p].f0)
    /\ (ops[p].kind = "ReadDirAll" /\ ops[p].pc = "done" /\ ops[p].fresh) =>
         (ops[p].err = "nil" /\ ops[p].rents = <<>>)

\* a ReadDirAll has run on the node a Mkdir just returned
C13_Witness ==
  \E p \in Procs :
    /\ ops[p].kind = "ReadDirAll" /\ ops[p].pc = "done" /\ ops[p].fresh
    /\ ops[p].err = "nil" /\ ops[p].rents = <<>>

\* C14: a Rename whose destination node is not a Directory node has failed
\* with the type-mismatch error, made no filesystem call and left the tree as
\* it was.
C14_RenameTypeMismatch ==
  \A p \in Procs :
    (ops[p].kind = "Rename" /\ ops[p].pc = "done" /\ ops[p].target.kind # "dir") =>
      /\ ops[p].err = "ETYPE"
      /\ ops[p].f1 = ops[p].f0
      /\ SysCall \notin Range(ops[p].trace)

\* a Rename onto a File node has returned
C14_Witness ==
  \E p \in Procs :
    /\ ops[p].kind = "Rename" /\ ops[p].pc = "done"
    /\ ops[p].target.kind = "file" /\ ops[p].err = "ETYPE"
    /\ ops[p].f0[Join(ops[p].node.path, ops[p].name)].kind # "none"

\* the tree f1 is the tree f0 with the entry at o, and all below it, moved to n
Moved(f0, f1, o, n) ==
  \A q \in Paths :
    IF IsPrefix(n, q)
    THEN f1[q] = Truth(f0, o \o SubSeq(q, Len(n) + 1, Len(q)))
    ELSE IF IsPrefix(o, q) THEN f1[q].kind = "none"
    ELSE f1[q] = f0[q]

C17_EndEventCarriesOutcome ==
  \A p \in Procs :
    ops[p].pc = "done" =>
      \A i \in 1..Len(ops[p].trace) :
        (ops[p].trace[i].ev \in {EndEvent(op) : op \in OpNames}
           /\ ops[p].trace[i].err # "-") =>
          ops[p].trace[i].err = ops[p].err

\* the event names of the fixed list that belong to the operation o runs
OwnEvents(o) ==
  IF o.kind \in {"attr", "Attr"}
  THEN IF o.node.kind = "dir" THEN {"attr:start", "attr:end"}
       ELSE {"Attr:start", "Attr:end"}
  ELSE {o.kind \o ":start", o.kind \o ":end"}

\* the event names of the Attr call Lookup makes on the node it constructed
NestedEvents(o) ==
  IF o.kind # "Lookup" THEN {}
  ELSE IF o.child.kind = "dir" THEN {"attr:start", "attr:end"}
  ELSE IF o.child.kind = "file" THEN {"Attr:start", "Attr:end"}
  ELSE {}

\* C18: every event name an operation has dispatched, and every name Handle
\* has been called with, is one of the operation's own two names (for Lookup,
\* or one of the two names of the Attr it calls on the node it constructed);
\* the name "*" is never dispatched.
C18_OwnEventNames ==
  \A p \in Procs :
    /\ \A i \in 1..Len(ops[p].trace) :
         ops[p].trace[i] # SysCall =>
           /\ ops[p].trace[i].ev \in OwnEvents(ops[p]) \cup NestedEvents(ops[p])
           /\ ops[p].trace[i].ev # "*"
    /\ hs[p].st # "off" =>
         (hs[p].event \in OwnEvents(ops[p]) \cup NestedEvents(ops[p])
            /\ hs[p].event # "*")

\* a Lookup of a file has returned: four dispatches, two of them Attr's
C18_Witness ==
  \E p \in Procs :
    /\ ops[p].kind = "Lookup" /\ ops[p].pc = "done" /\ ops[p].err = "nil"
    /\ ops[p].child.kind = "file"
    /\ {ops[p].trace[i].ev : i \in 1..Len(ops[p].trace)} \ {"sys"}
         = {"Lookup:start", "Attr:start", "Attr:end", "Lookup:end"}

\* C19: every Handle call that has entered its loop returns, whatever the
\* number of callbacks and whatever the other task is dispatching; a Handle
\* call launches units only when it found callbacks, one unit per callback;
\* and no operation ever waits at a Handle call that finds no callback.
C19_DispatchReturns ==
  /\ [](\A p \in Procs :
          /\ hs[p].st \in {"loop", "wait"} =>
               (Len(hs[p].units) = Len(HandleFns(hh, hs[p].event))
                  /\ Len(hs[p].units) > 0)
          /\ ops[p].pc \in Events => ~NoFuncs(hh, ops[p].pc))
  /\ \A p \in Procs : (hs[p].st \in {"loop", "wait"}) ~> (hs[p].st = "ret")

\* both tasks are inside Handle at once, each with two units launched
C19_Witness ==
  /\ \A p \in Procs : hs[p].st = "wait" /\ Len(hs[p].units) = 2
  /\ \A p \in Procs : \E k \in 1..2 : hs[p].units[k] = "run"

\* C20: every change of the registry appends one callback at the end of one
\* event's list and leaves every other list as it is; and a Handle call that
\* has returned invoked each callback as many times as it is registered
\* under the event (and under "*").
C20_RegistrationAppendOnly ==
  /\ [][hh' # hh =>
          \E e \in AllEvents, s \in Subs :
            /\ hh'[e] = Append(hh[e], s)
            /\ \A e2 \in AllEvents \ {e} : hh'[e2] = hh[e2]]_vars
  /\ [](\A p \in Procs :
          hs[p].st = "ret" =>
            \A s \in Subs :
              Count(hs[p].called, s)
                = Count(hh[hs[p].event], s) + Count(hh["*"], s))

\* C21: whenever no Create and no Write call is in progress, the process
\* holds no open file handle.
C21_HandlesScoped ==
  (\A p \in Procs : ~(Busy(p) /\ ops[p].kind \in {"Create", "Write"})) =>
    nOpen = 0

\* C22: while an operation is executing on a node, the path the node is
\* bound to names an entry of the real filesystem.
C22_NodePathResolves ==
  \A p \in Procs :
    Busy(p) => StatErr(fs, Resolve(ops[p].node.path)) = "nil"

\* C23: when Handle has returned from dispatching any event name, "*"
\* included, each callback registered once under "*" (and not under the
\* event's own name) was invoked exactly once.
C23_WildcardOnce ==
  \A p \in Procs :
    hs[p].st = "ret" =>
      \A s \in Subs :
        (Count(hh["*"], s) = 1
           /\ (hs[p].event # "*" => Count(hh[hs[p].event], s) = 0)) =>
          Count(hs[p].called, s) = 1

\* a Write that has succeeded with neither the truncate nor the append flag
PlainWrite(o) ==
  /\ o.kind = "Write" /\ o.pc = "done" /\ o.err = "nil"
  /\ o.flags \cap {"TRUNC", "APPEND"} = {}

\* the bytes of new at the positions [off, off + Len(data)) are data
HoldsAt(new, data, off) ==
  /\ Len(new) >= off + Len(data)
  /\ \A i \in 1..Len(data) : new[off + i] = data[i]

DispatchedNames(o) ==
  LET IsEvent(x) == x # "sys" IN SelectSeq(EventsOf(o.trace), IsEvent)

\* the order of dispatches in a Lookup that has returned: around the child's
\* two Attr events when it succeeded, Lookup:start alone when the name was
\* missing
LookupNesting(o) ==
  /\ o.err = "nil" =>
       DispatchedNames(o) =
         IF o.child.kind = "dir"
         THEN <<"Lookup:start", "attr:start", "attr:end", "Lookup:end">>
         ELSE <<"Lookup:start", "Attr:start", "Attr:end", "Lookup:end">>
  /\ o.g0.kind = "none" => DispatchedNames(o) = <<"Lookup:start">>

\* C25: a Lookup that has succeeded dispatched Lookup:start, the child's Attr
\* start event, the child's Attr end event and Lookup:end in this order, and
\* a Lookup of a missing name dispatched Lookup:start only; and when the
\* dispatch of the child's Attr event has returned and Lookup goes on to
\* Lookup:end, every callback matching that Attr event has been run.
C25_LookupNesting ==
  \A p \in Procs :
    /\ (ops[p].kind = "Lookup" /\ ops[p].pc = "done") => LookupNesting(ops[p])
    /\ (ops[p].kind = "Lookup" /\ ops[p].pc \in {"Lookup:end", "done"}
          /\ ops[p].err = "nil" /\ hs[p].st = "ret"
          /\ hs[p].event \in NestedEvents(ops[p])) =>
         Range(HandleFns(hh, hs[p].event)) \subseteq Range(hs[p].called)

====
